---- MODULE Spec2Model ----
(***************************************************************************)
(* Model of the post service of the blog API (services/posts/post-service  *)
(* and services/caching/cache-utils): the cache-aside listing queries      *)
(* getAllPostsService / getAllPostsByUserService and the three writers     *)
(* createPostService / editPostService / deletePostService, running as     *)
(* concurrent requests over one shared Redis cache and one MongoDB.        *)
(*                                                                         *)
(* Every `await` of the source is one step of a request, so requests       *)
(* interleave exactly at the suspension points of the code.  A Redis or    *)
(* MongoDB call may reject; the code has no try/catch around any of them,  *)
(* so a rejection ends the request with that error.                        *)
(***************************************************************************)
EXTENDS Integers, Sequences, FiniteSets, TLC

(***************************************************************************)
(* Bounds of the model.                                                    *)
(***************************************************************************)
MaxWrites == 2   \* create, edit and delete requests that get to change the database
MaxEntries == 2  \* cache entries held at the same time
MaxTicks == 4    \* advances of the clock
TickSeconds == 1200   \* seconds the clock advances at a time

(***************************************************************************)
(* Program constants (config constants).                                   *)
(***************************************************************************)
POSTS_PER_PAGE_LIMIT == 10
MAX_POST_TITLE_LENGTH == 100
MAX_POST_CONTENT_LENGTH == 5000
MinUsernameLength == 3
MaxUsernameLength == 20
TTL_SECONDS == 3600          \* the expiry passed to redisClient.setEx

Procs == {1, 2}              \* the requests the model follows
Users == {"alice", "bob"}
NoUser == "none"             \* request.user is null
Nil == [nil |-> TRUE]        \* null / undefined / no reply

(***************************************************************************)
(* Cache keys and glob patterns.  A key is the list of its ':'-separated   *)
(* segments, a pattern is the list of segments before the trailing '*'.    *)
(***************************************************************************)
PageKey(n) == <<"posts", "page", n>>
UserKey(u, n) == <<"posts", "user", u, "page", n>>
Pages == {1, 2}              \* the pages clients ask for
Keys == {PageKey(n) : n \in Pages} \cup {UserKey(u, n) : u \in Users, n \in Pages}
PatPage == <<"posts", "page">>     \* 'posts:page:*'
PatUser == <<"posts", "user">>     \* 'posts:user:*'
PatUserOf(u) == <<"posts", "user", u>>   \* 'posts:user:<u>:*'
Patterns == {PatPage, PatUser} \cup {PatUserOf(u) : u \in Users}

\* Matches comparing the first segment only: every 'posts:...' key matches
MatchesFirstSegment(key, pat) ==
    /\ Len(key) > Len(pat)
    /\ key[1] = pat[1]

\* redisClient.keys(pattern) with a pattern 'prefix:*'
Matches(key, pat) ==
    /\ Len(key) > Len(pat)
    /\ \A i \in 1..Len(pat) : key[i] = pat[i]

(***************************************************************************)
(* Pure helpers of the handlers.                                           *)
(***************************************************************************)
\* A raw query-string value: absent, or a decimal numeral.
RawNums(S) == {[given |-> TRUE, n |-> i] : i \in S} \cup {[given |-> FALSE, n |-> 0]}

\* parseInt(raw, 10) || dflt : NaN and 0 are falsy
ParseIntOr(raw, dflt) == IF raw.given /\ raw.n # 0 THEN raw.n ELSE dflt

\* raw || dflt on the unparsed string: only the absent value is falsy ("0" is not)
RawOr(raw, dflt) == IF raw.given THEN raw.n ELSE dflt

\* Math.ceil(a / b) for a >= 0, b > 0
CeilDiv(a, b) == (a + b - 1) \div b

Min(a, b) == IF a < b THEN a ELSE b

Reverse(s) == [i \in 1..Len(s) |-> s[Len(s) + 1 - i]]

RECURSIVE SelectAuthor(_, _)
SelectAuthor(s, u) ==
    IF s = <<>> THEN <<>>
    ELSE IF Head(s).author = u THEN <<Head(s)>> \o SelectAuthor(Tail(s), u)
    ELSE SelectAuthor(Tail(s), u)

\* .sort({createdAt: -1}).skip(skip).limit(limit) over the matching posts given
\* oldest first; limit 0 means no limit in MongoDB
FindWindow(matching, skip, limit) ==
    LET desc == Reverse(matching)
        last == IF limit = 0 THEN Len(desc) ELSE Min(Len(desc), skip + limit)
    IN  IF skip + 1 > last THEN <<>> ELSE SubSeq(desc, skip + 1, last)

\* A string is held as its runs of equal characters: "  aa" is
\* <<Run(" ", 2), Run("a", 2)>>.  String.prototype.trim drops the leading and
\* the trailing whitespace, .length adds the runs up
Run(c, n) == [c |-> c, n |-> n]
RECURSIVE TrimLeft(_)
TrimLeft(s) == IF s # <<>> /\ Head(s).c = " " THEN TrimLeft(Tail(s)) ELSE s
Trim(s) == Reverse(TrimLeft(Reverse(TrimLeft(s))))
RECURSIVE StrLen(_)
StrLen(s) == IF s = <<>> THEN 0 ELSE Head(s).n + StrLen(Tail(s))

\* JSON.stringify / JSON.parse of a response payload
Stringify(data) == [json |-> data]
Parse(str) == str.json

\* validateUsername: a string of 3..20 characters (the names used as inputs
\* contain only [a-zA-Z0-9_] and are not reserved names)
ValidateUsername(u) == Len(u) >= MinUsernameLength /\ Len(u) <= MaxUsernameLength

(***************************************************************************)
(* Inputs of the requests.                                                 *)
(***************************************************************************)
PageInputs == RawNums({-1, 0} \cup Pages)   \* ?page= absent, "-1", "0", "1", "2"
LimitInputs == RawNums({1})                 \* ?limit= absent, "1"
NameInputs == Users \cup {"carol", "al", ""}   \* carol: no such user, al: too short
PostIds == 1..MaxWrites
\* a request body field: a string (as characters) or a value of another type
Str(s) == [isString |-> TRUE, chars |-> s]
NotAString == [isString |-> FALSE, chars |-> <<>>]
BadTitles == {NotAString, Str(<<Run(" ", 8)>>), Str(<<Run("x", MAX_POST_TITLE_LENGTH + 1)>>)}
\* posts are created titled " a" and retitled "b  " by an edit
TitleInputs == BadTitles \cup {Str(<<Run(" ", 1), Run("a", 1)>>)}
NewTitleInputs == BadTitles \cup {Str(<<Run("b", 1), Run(" ", 2)>>)}
ContentInputs ==
    {NotAString, Str(<<>>), Str(<<Run("c", 1)>>),
     Str(<<Run("x", MAX_POST_CONTENT_LENGTH + 1)>>)}

(***************************************************************************)
(* State.                                                                  *)
(*   users   the usernames that have a User document                       *)
(*   likes   the Like collection: for each (post id, user), the number of  *)
(*           Like documents                                                *)
(*   posts   the Post collection, in order of creation (oldest first)      *)
(*   nextId  the id the next created post gets                             *)
(*   writes  the changes of the database made so far                       *)
(*   role    the role field of each User document (of a deleted user: the  *)
(*           role it had)                                                  *)
(*   cache   the Redis keyspace: key -> stored string, or Nil when absent  *)
(*   entry   for each key in the cache: when it expires (exp), since when   *)
(*           the key has been present (since), and when the stored data     *)
(*           were read from the database (readAt)                           *)
(*   now     the time in seconds                                            *)
(*   wroteAt the time of the last change of the database                    *)
(*   proc    the requests: position (pc), arguments, locals and outcome    *)
(***************************************************************************)
VARIABLES users, likes, posts, nextId, writes, role, cache, entry, now, wroteAt,
          proc
vars == <<users, likes, posts, nextId, writes, role, cache, entry, now, wroteAt,
          proc>>

\* no Like document
NoLikes == [pr \in PostIds \X Users |-> 0]

\* no entry under the key
NoEntry == [exp |-> 0, since |-> 0, readAt |-> 0]

Idle ==
    [pc |-> "idle", op |-> "none", user |-> NoUser, urole |-> "none",
     page |-> 0, limit |-> 0, pid |-> 0,
     title |-> <<>>, content |-> <<>>, doc |-> Nil,
     items |-> <<>>, total |-> 0, keys |-> {}, pat |-> <<>>,
     hit |-> FALSE, dbCalls |-> 0, mutated |-> FALSE, invalidated |-> FALSE,
     dels |-> 0, before |-> <<>>, prior |-> -1,
     startedAt |-> 0, readAt |-> 0, age |-> 0, newRole |-> "",
     likesBefore |-> NoLikes, again |-> FALSE, likesOrigin |-> NoLikes,
     err |-> "", res |-> Nil]

Active(q) == q.pc \notin {"idle", "done"}

Init ==
    /\ posts = <<>>
    /\ nextId = 1
    /\ writes = 0
    /\ users = Users
    /\ likes = NoLikes
    /\ role = [u \in Users |-> IF u = "bob" THEN "admin" ELSE "user"]
    /\ cache = [k \in Keys |-> Nil]
    /\ entry = [k \in Keys |-> NoEntry]
    /\ now = 0
    /\ wroteAt = 0
    /\ proc = [p \in Procs |-> Idle]

\* redisClient.get(key): the stored string or null
CacheLookup(k) == IF k \in Keys THEN cache[k] ELSE Nil

\* Post.findById(id)
FindPostById(id) ==
    IF \E i \in 1..Len(posts) : posts[i].id = id
    THEN posts[CHOOSE i \in 1..Len(posts) : posts[i].id = id]
    ELSE Nil

\* the request has ended: its locals are gone, what stays is what it was asked
\* and what it did
Ended(q) ==
    [Idle EXCEPT !.pc = "done", !.op = q.op, !.user = q.user, !.urole = q.urole,
                 !.page = q.page, !.limit = q.limit, !.pid = q.pid, !.doc = q.doc,
                 !.hit = q.hit,
                 !.dbCalls = q.dbCalls, !.mutated = q.mutated,
                 !.invalidated = q.invalidated, !.startedAt = q.startedAt,
                 !.newRole = q.newRole, !.likesBefore = q.likesBefore,
                 !.again = q.again, !.likesOrigin = q.likesOrigin]

\* a request ends by throwing an ApiError, or by the rejection of a call
Throw(q, code) == [Ended(q) EXCEPT !.err = code]

\* a request ends by returning a value; age is how long before this moment a
\* listing's data were read from the database
Return(q, value) ==
    [Ended(q) EXCEPT !.res = value,
                     !.age = IF q.op \in {"getAll", "getUser"} THEN now - q.readAt ELSE 0]

\* request p begins
Begin(p, q) == proc' = [proc EXCEPT ![p] = [q EXCEPT !.startedAt = now]]

Step(p, q) == proc' = [proc EXCEPT ![p] = q]

(***************************************************************************)
(* getAllPostsService and getAllPostsByUserService.                        *)
(***************************************************************************)
\* the entries in the cache, and the listings in flight that may add one
Populated == Cardinality({k \in Keys : cache[k] # Nil})
Populating == Cardinality({p \in Procs : proc[p].op \in {"getAll", "getUser"}
                                         /\ Active(proc[p])})

\* the model follows the cache while it holds at most MaxEntries entries
CanRead(key) == CacheLookup(key) # Nil \/ Populated + Populating < MaxEntries

\* getAllPostsService up to its first await (redisClient.get)
StartGetAll(p, rawPage, rawLimit) ==
    /\ proc[p].pc = "idle"
    /\ CanRead(PageKey(ParseIntOr(rawPage, 1)))
    /\ LET page == ParseIntOr(rawPage, 1)
           limit == RawOr(rawLimit, POSTS_PER_PAGE_LIMIT)
       IN  Begin(p, [Idle EXCEPT !.op = "getAll", !.pc = "get", !.page = page,
                                 !.limit = limit])
    /\ UNCHANGED <<users, likes, posts, nextId, writes, role, cache, entry, now, wroteAt>>

\* getAllPostsByUserService up to its first await
StartGetUser(p, username, rawPage, rawLimit) ==
    /\ proc[p].pc = "idle"
    /\ CanRead(UserKey(username, ParseIntOr(rawPage, 1)))
    /\ LET page == ParseIntOr(rawPage, 1)
           limit == ParseIntOr(rawLimit, POSTS_PER_PAGE_LIMIT)
           q == [Idle EXCEPT !.op = "getUser", !.user = username]
       IN  IF username = "" THEN Begin(p, Throw(q, "USERNAME_REQUIRED"))
           ELSE IF ~ValidateUsername(username)
                THEN Begin(p, Throw(q, "INVALID_USERNAME_FORMAT"))
           ELSE Begin(p, [q EXCEPT !.page = page, !.limit = limit, !.pc = "get"])
    /\ UNCHANGED <<users, likes, posts, nextId, writes, role, cache, entry, now, wroteAt>>

\* CacheKey with the page fixed to 1, as in the key createPostService builds
CacheKeyFirstPage(q) == IF q.op = "getUser" THEN UserKey(q.user, 1) ELSE PageKey(1)

\* cacheKey
CacheKey(q) == IF q.op = "getUser" THEN UserKey(q.user, q.page) ELSE PageKey(q.page)

\* AfterGet without its `return JSON.parse(cached)`: a hit falls through to the
\* database
AfterGetNoReturn(q, cached) ==
    [q EXCEPT !.hit = cached # Nil, !.pc = IF q.op = "getUser" THEN "user" ELSE "db"]

\* what the listing does with the reply of redisClient.get
AfterGet(q, cached) ==
    IF cached # Nil
    THEN Return([q EXCEPT !.hit = TRUE, !.readAt = entry[CacheKey(q)].readAt],
                Parse(cached))
    ELSE [q EXCEPT !.pc = IF q.op = "getUser" THEN "user" ELSE "db"]

\* await redisClient.get(cacheKey)
CacheGet(p) ==
    /\ proc[p].pc = "get"
    /\ \/ Step(p, AfterGet(proc[p], CacheLookup(CacheKey(proc[p]))))
       \/ Step(p, Throw(proc[p], "CACHE_UNAVAILABLE"))
    /\ UNCHANGED <<users, likes, posts, nextId, writes, role, cache, entry, now, wroteAt>>

\* await findUserByCriteria({ username })
FindUser(p) ==
    /\ proc[p].pc = "user"
    /\ LET q == [proc[p] EXCEPT !.dbCalls = @ + 1]
       IN  \/ IF q.user \in users
              THEN Step(p, [q EXCEPT !.pc = "db"])
              ELSE Step(p, Throw(q, "USER_NOT_FOUND"))
           \/ Step(p, Throw(q, "DB_ERROR"))
    /\ UNCHANGED <<users, likes, posts, nextId, writes, role, cache, entry, now, wroteAt>>

\* the documents the listing's filter matches, oldest first
Matching(q) == IF q.op = "getUser" THEN SelectAuthor(posts, q.user) ELSE posts

\* the skip the listing passes to the query
SkipOf(q) ==
    IF q.op = "getUser" THEN (q.page - 1) * POSTS_PER_PAGE_LIMIT
    ELSE (q.page - 1) * q.limit

\* the page size the listing divides the count by
DivisorOf(q) == IF q.op = "getUser" THEN q.limit ELSE POSTS_PER_PAGE_LIMIT

\* the property of responseData that carries the posts
ListName(q) == IF q.op = "getUser" THEN "userPosts" ELSE "allPosts"

\* responseData: { allPosts | userPosts, page, totalPages, totalPosts }
ResponseData(q) ==
    [list |-> ListName(q), items |-> q.items, page |-> q.page,
     totalPages |-> CeilDiv(q.total, DivisorOf(q)), totalPosts |-> q.total]

\* Post.find(filter).sort({ createdAt: -1 }).skip(skip).limit(limit): one of the
\* two queries of the Promise.all; MongoDB rejects a negative skip
DbFind(p) ==
    /\ proc[p].pc \in {"db", "dbFind"}
    /\ LET q == [proc[p] EXCEPT !.dbCalls = @ + 1,
                                !.readAt = IF proc[p].pc = "db" THEN now ELSE @]
           next == IF q.pc = "db" THEN "dbCount" ELSE "set"
       IN  \/ /\ SkipOf(q) >= 0
              /\ Step(p, [q EXCEPT !.pc = next,
                                   !.items = FindWindow(Matching(q), SkipOf(q), q.limit)])
           \/ Step(p, Throw(q, "DB_ERROR"))
    /\ UNCHANGED <<users, likes, posts, nextId, writes, role, cache, entry, now, wroteAt>>

\* DbCount with a catch around the query: a failed count goes on as a count of 0
DbCountSwallow(p) ==
    /\ proc[p].pc \in {"db", "dbCount"}
    /\ LET q == [proc[p] EXCEPT !.dbCalls = @ + 1,
                                !.readAt = IF proc[p].pc = "db" THEN now ELSE @]
           next == IF q.pc = "db" THEN "dbFind" ELSE "set"
       IN  \/ Step(p, [q EXCEPT !.pc = next, !.total = Len(Matching(q))])
           \/ Step(p, [q EXCEPT !.pc = next, !.total = 0])
    /\ UNCHANGED <<users, likes, posts, nextId, writes, role, cache, entry, now, wroteAt>>

\* Post.countDocuments(filter): the other query of the Promise.all
DbCount(p) ==
    /\ proc[p].pc \in {"db", "dbCount"}
    /\ LET q == [proc[p] EXCEPT !.dbCalls = @ + 1,
                                !.readAt = IF proc[p].pc = "db" THEN now ELSE @]
           next == IF q.pc = "db" THEN "dbFind" ELSE "set"
       IN  \/ Step(p, [q EXCEPT !.pc = next, !.total = Len(Matching(q))])
           \/ Step(p, Throw(q, "DB_ERROR"))
    /\ UNCHANGED <<users, likes, posts, nextId, writes, role, cache, entry, now, wroteAt>>

\* await redisClient.setEx(cacheKey, 3600, JSON.stringify(responseData)); return
CacheSet(p) ==
    /\ proc[p].pc = "set"
    /\ \/ /\ cache' = [cache EXCEPT ![CacheKey(proc[p])] = Stringify(ResponseData(proc[p]))]
          /\ entry' = [entry EXCEPT ![CacheKey(proc[p])] =
                          [exp |-> now + TTL_SECONDS,
                           since |-> IF cache[CacheKey(proc[p])] = Nil THEN now ELSE @.since,
                           readAt |-> proc[p].readAt]]
          /\ Step(p, Return(proc[p], ResponseData(proc[p])))
       \/ /\ Step(p, Throw(proc[p], "CACHE_UNAVAILABLE"))
          /\ UNCHANGED <<cache, entry>>
    /\ UNCHANGED <<users, likes, posts, nextId, writes, role, now, wroteAt>>

\* Redis drops an entry whose TTL (3600 s from the setEx) has run out, where
\* the time between two steps is left open: any entry may be the next to go
Expire(k) ==
    /\ cache[k] # Nil
    /\ cache' = [cache EXCEPT ![k] = Nil]
    /\ entry' = [entry EXCEPT ![k] = NoEntry]
    /\ UNCHANGED <<users, likes, posts, nextId, writes, role, now, wroteAt, proc>>

\* time passes, and Redis drops the entries whose TTL has run out by then
Tick ==
    /\ now < MaxTicks * TickSeconds
    /\ now' = now + TickSeconds
    /\ cache' = [k \in Keys |-> IF entry[k].exp <= now' THEN Nil ELSE cache[k]]
    /\ entry' = [k \in Keys |-> IF entry[k].exp <= now' THEN NoEntry ELSE entry[k]]
    /\ UNCHANGED <<users, likes, posts, nextId, writes, role, wroteAt, proc>>

\* the controller has sent the response (or the error handler the error)
Respond(p) ==
    /\ proc[p].pc = "done"
    /\ Step(p, Idle)
    /\ UNCHANGED <<users, likes, posts, nextId, writes, role, cache, entry, now, wroteAt>>

(***************************************************************************)
(* clearCacheForKey.                                                       *)
(***************************************************************************)
\* the position after clearCacheForKey in each writer
AfterClear(q) ==
    CASE q.op = "create" -> "findPosts"
      [] q.op = "edit" -> "save"
      [] q.op = "delete" -> "remove"
      [] q.op = "clear" -> "done"

\* AfterKeys without its `if (keys.length)`: the deletes are awaited whatever
\* the reply
AfterKeysNoGuard(q, found) ==
    [q EXCEPT !.invalidated = TRUE, !.keys = found, !.pc = "del"]

\* what clearCacheForKey does with the reply of redisClient.keys
AfterKeys(q, found) ==
    IF found # {}
    THEN [q EXCEPT !.invalidated = TRUE, !.keys = found, !.pc = "del"]
    ELSE [q EXCEPT !.invalidated = TRUE, !.pc = AfterClear(q)]

\* const keys = await redisClient.keys(keyPattern)
ClearKeys(p) ==
    /\ proc[p].pc = "keys"
    /\ \/ Step(p, AfterKeys(proc[p],
                     {k \in Keys : cache[k] # Nil /\ Matches(k, proc[p].pat)}))
       \/ Step(p, Throw(proc[p], "CACHE_UNAVAILABLE"))
    /\ UNCHANGED <<users, likes, posts, nextId, writes, role, cache, entry, now, wroteAt>>

\* ClearDel deleting the first of the listed keys only
ClearDelOne(p) ==
    /\ proc[p].pc = "del"
    /\ LET first == CHOOSE k \in proc[p].keys : TRUE
       IN  /\ cache' = [cache EXCEPT ![first] = Nil]
           /\ entry' = [entry EXCEPT ![first] = NoEntry]
           /\ Step(p, [proc[p] EXCEPT !.keys = {}, !.pc = AfterClear(proc[p]),
                                      !.dels = @ + 1])
    /\ UNCHANGED <<users, likes, posts, nextId, writes, role, now, wroteAt>>

\* await Promise.all(keys.map(k => redisClient.del(k))): the DEL commands are
\* queued on the one connection in the same tick, so they run back to back
ClearDel(p) ==
    /\ proc[p].pc = "del"
    /\ \/ /\ cache' = [k \in Keys |-> IF k \in proc[p].keys THEN Nil ELSE cache[k]]
          /\ entry' = [k \in Keys |-> IF k \in proc[p].keys THEN NoEntry ELSE entry[k]]
          /\ Step(p, [proc[p] EXCEPT !.keys = {}, !.pc = AfterClear(proc[p]),
                                     !.dels = @ + Cardinality(proc[p].keys)])
       \/ /\ Step(p, Throw(proc[p], "CACHE_UNAVAILABLE"))
          /\ UNCHANGED <<cache, entry>>
    /\ UNCHANGED <<users, likes, posts, nextId, writes, role, now, wroteAt>>

\* clearCacheForKey(keyPattern) called on its own, up to its first await; a
\* caller may call it again when it has returned.  before is the cache the call
\* found, prior the number of keys the call before it deleted when that call
\* had the same pattern and returned (-1 otherwise)
StartClear(p, pat) ==
    /\ proc[p].pc = "idle" \/ (proc[p].pc = "done" /\ proc[p].op = "clear")
    /\ Begin(p, [Idle EXCEPT !.op = "clear", !.pat = pat, !.pc = "keys",
                             !.before = cache,
                             !.prior = IF proc[p].pc = "done" /\ proc[p].err = ""
                                          /\ proc[p].pat = pat
                                       THEN proc[p].dels ELSE -1])
    /\ UNCHANGED <<users, likes, posts, nextId, writes, role, cache, entry, now, wroteAt>>

(***************************************************************************)
(* createPostService, editPostService, deletePostService.                  *)
(***************************************************************************)
\* the checks of title and content shared by create and edit: the error code,
\* or "" when the input passes
CheckBody(title, content) ==
    IF ~title.isString \/ ~content.isString THEN "INVALID_INPUT_TYPE"
    ELSE IF Trim(title.chars) = <<>> \/ Trim(content.chars) = <<>>
         THEN "EMPTY_TITLE_OR_CONTENT"
    ELSE IF StrLen(Trim(title.chars)) > MAX_POST_TITLE_LENGTH THEN "TITLE_TOO_LONG"
    ELSE IF StrLen(Trim(content.chars)) > MAX_POST_CONTENT_LENGTH THEN "CONTENT_TOO_LONG"
    ELSE ""

\* the writers in flight
Writing == Cardinality({p \in Procs : proc[p].op \in {"create", "edit", "delete"}
                                      /\ Active(proc[p])})

\* the model follows the system for MaxWrites changes of the database
CanWrite == writes + Writing < MaxWrites

\* the pattern createPostService clears
CreatePattern(u) == PatUser

\* createPostService up to its first await (clearCacheForKey)
StartCreate(p, u, title, content) ==
    /\ proc[p].pc = "idle"
    /\ CanWrite
    /\ LET q == [Idle EXCEPT !.op = "create", !.user = u,
                             !.urole = IF u = NoUser THEN "none" ELSE role[u]]
       IN  IF u = NoUser THEN Begin(p, Throw(q, "USER_NOT_FOUND"))
           ELSE IF CheckBody(title, content) # ""
                THEN Begin(p, Throw(q, CheckBody(title, content)))
           ELSE Begin(p, [q EXCEPT !.title = Trim(title.chars),
                                   !.content = Trim(content.chars),
                                   !.pat = CreatePattern(u), !.pc = "keys"])
    /\ UNCHANGED <<users, likes, posts, nextId, writes, role, cache, entry, now, wroteAt>>

\* const postsByUser = await findPosts({ user_id: userId }): the Post schema has
\* no path user_id, so the filter matches every post (strictQuery on: the
\* unknown path is dropped) or none (strictQuery off), as the installed
\* Mongoose has it
FindPostsByUser(p) ==
    /\ proc[p].pc = "findPosts"
    /\ LET q == [proc[p] EXCEPT !.dbCalls = @ + 1]
       IN  \/ \E n \in {0, Len(posts)} :
                 Step(p, [q EXCEPT !.pc = IF q.urole = "user" /\ n = 0
                                          THEN "role" ELSE "create"])
           \/ Step(p, Throw(q, "DB_ERROR"))
    /\ UNCHANGED <<users, likes, posts, nextId, writes, role, cache, entry, now, wroteAt>>

\* await updateUserDetail(userId, "role", "author")
PromoteUser(p) ==
    /\ proc[p].pc = "role"
    /\ LET q == [proc[p] EXCEPT !.dbCalls = @ + 1]
       IN  \/ /\ role' = IF q.user \in users THEN [role EXCEPT ![q.user] = "author"]
                       ELSE role
              /\ Step(p, [q EXCEPT !.pc = "create"])
           \/ /\ Step(p, Throw(q, "DB_ERROR"))
              /\ UNCHANGED role
    /\ UNCHANGED <<users, likes, posts, nextId, writes, cache, entry, now, wroteAt>>

\* const post = await createPost({ title, content, author_id }); return post
CreatePost(p) ==
    /\ proc[p].pc = "create"
    /\ LET q == [proc[p] EXCEPT !.dbCalls = @ + 1]
           post == [id |-> nextId, author |-> q.user,
                    title |-> q.title, content |-> q.content]
       IN  \/ /\ posts' = Append(posts, post)
              /\ nextId' = nextId + 1
              /\ writes' = writes + 1
              /\ wroteAt' = now
              /\ Step(p, Return([q EXCEPT !.mutated = TRUE], post))
           \/ /\ Step(p, Throw(q, "DB_ERROR"))
              /\ UNCHANGED <<posts, nextId, writes, wroteAt>>
    /\ UNCHANGED <<users, likes, role, cache, entry, now>>

\* editPostService up to its first await (findPostById)
StartEdit(p, u, postId, title, content) ==
    /\ proc[p].pc = "idle"
    /\ CanWrite
    /\ LET q == [Idle EXCEPT !.op = "edit", !.user = u, !.pid = postId,
                             !.urole = IF u = NoUser THEN "none" ELSE role[u]]
       IN  IF u = NoUser THEN Begin(p, Throw(q, "UNAUTHORIZED_EDIT"))
           ELSE IF CheckBody(title, content) # ""
                THEN Begin(p, Throw(q, CheckBody(title, content)))
           ELSE Begin(p, [q EXCEPT !.title = Trim(title.chars),
                                   !.content = Trim(content.chars),
                                   !.pc = "findPost"])
    /\ UNCHANGED <<users, likes, posts, nextId, writes, role, cache, entry, now, wroteAt>>

\* deletePostService up to its first await (findPostById)
StartDelete(p, u, postId) ==
    /\ proc[p].pc = "idle"
    /\ CanWrite
    /\ LET q == [Idle EXCEPT !.op = "delete", !.user = u, !.pid = postId,
                             !.urole = IF u = NoUser THEN "none" ELSE role[u]]
       IN  IF u = NoUser THEN Begin(p, Throw(q, "UNAUTHORIZED_DELETE"))
           ELSE Begin(p, [q EXCEPT !.pc = "findPost"])
    /\ UNCHANGED <<users, likes, posts, nextId, writes, role, cache, entry, now, wroteAt>>

\* whether the writer lets the user touch the post it found
Permitted(q, doc) ==
    IF q.op = "edit" THEN doc.author = q.user
    ELSE q.urole = "admin" \/ doc.author = q.user

\* what edit and delete do with the reply of findPostById
AfterFindPost(q, doc) ==
    IF doc = Nil THEN Throw(q, "POST_NOT_FOUND")
    ELSE IF ~Permitted(q, doc)
         THEN Throw(q, IF q.op = "edit" THEN "FORBIDDEN_EDIT" ELSE "FORBIDDEN_DELETE")
    ELSE [q EXCEPT !.doc = doc, !.pat = PatPage, !.pc = "keys"]

\* FindPost of a writer that clears the page listings before it looks the post
\* up, and so before the checks on the post
FindPostClearFirst(p) ==
    /\ proc[p].pc = "findPost"
    /\ LET q == [proc[p] EXCEPT !.dbCalls = @ + 1, !.invalidated = TRUE]
       IN  \/ Step(p, AfterFindPost(q, FindPostById(q.pid)))
           \/ Step(p, Throw(q, "DB_ERROR"))
    /\ cache' = [k \in Keys |-> IF Matches(k, PatPage) THEN Nil ELSE cache[k]]
    /\ entry' = [k \in Keys |-> IF Matches(k, PatPage) THEN NoEntry ELSE entry[k]]
    /\ UNCHANGED <<users, likes, posts, nextId, writes, role, now, wroteAt>>

\* const post = await findPostById(postId)
FindPost(p) ==
    /\ proc[p].pc = "findPost"
    /\ LET q == [proc[p] EXCEPT !.dbCalls = @ + 1]
       IN  \/ Step(p, AfterFindPost(q, FindPostById(q.pid)))
           \/ Step(p, Throw(q, "DB_ERROR"))
    /\ UNCHANGED <<users, likes, posts, nextId, writes, role, cache, entry, now, wroteAt>>

\* the collection after postDB.save(): the document p loaded, with the paths
\* whose value the edit changed written over the stored ones
Saved(q) ==
    [i \in 1..Len(posts) |->
        IF posts[i].id # q.pid THEN posts[i]
        ELSE [posts[i] EXCEPT
                !.title = IF q.title # q.doc.title THEN q.title ELSE @,
                !.content = IF q.content # q.doc.content THEN q.content ELSE @]]

\* await postDB.save(); return postDB.  Without a changed path save() sends
\* nothing; with one it rejects when the document is gone
SavePost(p) ==
    /\ proc[p].pc = "save"
    /\ LET q == proc[p]
           edited == [q.doc EXCEPT !.title = q.title, !.content = q.content]
       IN  IF edited = q.doc
           THEN /\ Step(p, Return(q, edited))
                /\ UNCHANGED <<posts, writes, wroteAt>>
           ELSE \/ /\ FindPostById(q.pid) # Nil
                   /\ posts' = Saved(q)
                   /\ writes' = writes + 1
                   /\ wroteAt' = now
                   /\ Step(p, Return([q EXCEPT !.dbCalls = @ + 1, !.mutated = TRUE], edited))
                \/ /\ Step(p, Throw([q EXCEPT !.dbCalls = @ + 1], "DB_ERROR"))
                   /\ UNCHANGED <<posts, writes, wroteAt>>
    /\ UNCHANGED <<users, likes, nextId, role, cache, entry, now>>

\* await deletePostById(postId)
RemovePost(p) ==
    /\ proc[p].pc = "remove"
    /\ LET q == [proc[p] EXCEPT !.dbCalls = @ + 1]
       IN  \/ /\ posts' = SelectSeq(posts, LAMBDA d : d.id # q.pid)
              /\ writes' = writes + 1
              /\ wroteAt' = now
              /\ Step(p, Return([q EXCEPT !.mutated = TRUE], [deleted |-> q.pid]))
           \/ /\ Step(p, Throw(q, "DB_ERROR"))
              /\ UNCHANGED <<posts, writes, wroteAt>>
    /\ UNCHANGED <<users, likes, nextId, role, cache, entry, now>>

(***************************************************************************)
(* updateUserRoleService and deleteUserByIdService (admin routes).         *)
(***************************************************************************)
\* constants.VALID_ROLES
VALID_ROLES == {"user", "author", "admin"}

\* the enum of the path role of the User schema
SchemaRoles == {"user", "admin"}

\* the roles admins send: the valid ones, none at all, and one that no list has
RoleInputs == VALID_ROLES \cup {"", "root"}

\* the user ids admins send: those of the registered users and one of nobody
UserIdInputs == Users \cup {"carol"}

\* updateUserRoleService up to its first await (findUserById); urole is the
\* role the user has when the request begins
StartUpdateRole(p, u, newRole) ==
    /\ proc[p].pc = "idle"
    /\ LET q == [Idle EXCEPT !.op = "updateRole", !.user = u, !.newRole = newRole,
                             !.urole = IF u \in users THEN role[u] ELSE "none"]
       IN  IF newRole = "" THEN Begin(p, Throw(q, "ROLE_REQUIRED"))
           ELSE IF newRole \notin VALID_ROLES THEN Begin(p, Throw(q, "INVALID_ROLE"))
           ELSE Begin(p, [q EXCEPT !.pc = "findUserById"])
    /\ UNCHANGED <<users, likes, posts, nextId, writes, role, cache, entry, now, wroteAt>>

\* deleteUserByIdService up to its first await (findUserById)
StartDeleteUser(p, u) ==
    /\ proc[p].pc = "idle"
    /\ Begin(p, [Idle EXCEPT !.op = "deleteUser", !.user = u,
                             !.urole = IF u \in users THEN role[u] ELSE "none",
                             !.pc = "findUserById"])
    /\ UNCHANGED <<users, likes, posts, nextId, writes, role, cache, entry, now, wroteAt>>

\* what the two services do with the reply of findUserById
AfterFindUserById(q, found) ==
    IF ~found THEN Throw(q, "USER_NOT_FOUND")
    ELSE IF q.op = "deleteUser" THEN [q EXCEPT !.pc = "deleteUser"]
    ELSE IF role[q.user] = q.newRole THEN Throw(q, "CURRENT_ROLE_MATCHES_NEW_ROLE")
    ELSE [q EXCEPT !.pc = "saveUser"]

\* const userDB = await findUserById(userId)
FindUserById(p) ==
    /\ proc[p].pc = "findUserById"
    /\ LET q == [proc[p] EXCEPT !.dbCalls = @ + 1]
       IN  \/ Step(p, AfterFindUserById(q, q.user \in users))
           \/ Step(p, Throw(q, "DB_ERROR"))
    /\ UNCHANGED <<users, likes, posts, nextId, writes, role, cache, entry, now, wroteAt>>

\* await userDB.save(); return { userDB, oldRole, role }.  save() validates the
\* changed path first and rejects a role the schema's enum does not list; the
\* update rejects when the document is gone
SaveUser(p) ==
    /\ proc[p].pc = "saveUser"
    /\ LET q == proc[p]
       IN  IF q.newRole \notin SchemaRoles
           THEN /\ Step(p, Throw(q, "ValidationError"))
                /\ UNCHANGED role
           ELSE \/ /\ q.user \in users
                   /\ role' = [role EXCEPT ![q.user] = q.newRole]
                   /\ Step(p, Return([q EXCEPT !.dbCalls = @ + 1, !.mutated = TRUE],
                                     [oldRole |-> q.urole, role |-> q.newRole]))
                \/ /\ Step(p, Throw([q EXCEPT !.dbCalls = @ + 1], "DB_ERROR"))
                   /\ UNCHANGED role
    /\ UNCHANGED <<users, likes, posts, nextId, writes, cache, entry, now, wroteAt>>

\* const deletedUser = await deleteUserById(userDB._id); return deletedUser
DeleteUserDoc(p) ==
    /\ proc[p].pc = "deleteUser"
    /\ LET q == [proc[p] EXCEPT !.dbCalls = @ + 1]
       IN  \/ /\ users' = users \ {q.user}
              /\ Step(p, Return([q EXCEPT !.mutated = TRUE], [deleted |-> q.user]))
           \/ /\ Step(p, Throw(q, "DB_ERROR"))
              /\ UNCHANGED users
    /\ UNCHANGED <<likes, posts, nextId, writes, role, cache, entry, now, wroteAt>>

(***************************************************************************)
(* toggleLikeService.                                                      *)
(***************************************************************************)
\* toggleLikeService up to its first await (findPostById); a client may send
\* the next toggle when the last one has been answered.  likesBefore is the
\* Like collection the call finds; again says that the call before it was a
\* toggle of the same user on the same post that returned, and likesOrigin is
\* the collection that call found
StartLike(p, u, postId) ==
    /\ proc[p].pc = "idle" \/ (proc[p].pc = "done" /\ proc[p].op = "like")
    /\ LET again == /\ proc[p].pc = "done" /\ proc[p].err = ""
                    /\ proc[p].user = u /\ proc[p].pid = postId
       IN  Begin(p, [Idle EXCEPT !.op = "like", !.user = u, !.pid = postId,
                                 !.likesBefore = likes, !.again = again,
                                 !.likesOrigin = IF again THEN proc[p].likesBefore
                                                 ELSE NoLikes,
                                 !.pc = "likeFindPost"])
    /\ UNCHANGED <<users, likes, posts, nextId, writes, role, cache, entry, now, wroteAt>>

\* const post = await findPostById(postId); if (!post) throw POST_NOT_FOUND
LikeFindPost(p) ==
    /\ proc[p].pc = "likeFindPost"
    /\ LET q == [proc[p] EXCEPT !.dbCalls = @ + 1]
       IN  \/ IF FindPostById(q.pid) = Nil
              THEN Step(p, Throw(q, "POST_NOT_FOUND"))
              ELSE Step(p, [q EXCEPT !.pc = "findLike"])
           \/ Step(p, Throw(q, "DB_ERROR"))
    /\ UNCHANGED <<users, likes, posts, nextId, writes, role, cache, entry, now, wroteAt>>

\* FindLike with a filter of the post only: the like of any user counts
FindLikeOfAnyUser(p) ==
    /\ proc[p].pc = "findLike"
    /\ LET q == [proc[p] EXCEPT !.dbCalls = @ + 1]
       IN  \/ Step(p, [q EXCEPT !.pc = IF \E u \in Users : likes[<<q.pid, u>>] > 0
                                        THEN "deleteLike" ELSE "createLike"])
           \/ Step(p, Throw(q, "DB_ERROR"))
    /\ UNCHANGED <<users, likes, posts, nextId, writes, role, cache, entry, now, wroteAt>>

\* const existingLike = await findLikeByCriteria({ post_id, user_id })
FindLike(p) ==
    /\ proc[p].pc = "findLike"
    /\ LET q == [proc[p] EXCEPT !.dbCalls = @ + 1]
       IN  \/ Step(p, [q EXCEPT !.pc = IF likes[<<q.pid, q.user>>] > 0
                                        THEN "deleteLike" ELSE "createLike"])
           \/ Step(p, Throw(q, "DB_ERROR"))
    /\ UNCHANGED <<users, likes, posts, nextId, writes, role, cache, entry, now, wroteAt>>

\* await deleteLikeById(existingLike._id); return "unliked".  Deleting a
\* document that is gone deletes nothing and does not fail
DeleteLike(p) ==
    /\ proc[p].pc = "deleteLike"
    /\ LET q == [proc[p] EXCEPT !.dbCalls = @ + 1]
       IN  \/ /\ likes' = [likes EXCEPT ![<<q.pid, q.user>>] = IF @ > 0 THEN @ - 1 ELSE 0]
              /\ Step(p, Return([q EXCEPT !.mutated = TRUE], [msg |-> "unliked"]))
           \/ /\ Step(p, Throw(q, "DB_ERROR"))
              /\ UNCHANGED likes
    /\ UNCHANGED <<users, posts, nextId, writes, role, cache, entry, now, wroteAt>>

\* CreateLike on a collection without the unique index
CreateLikeNoIndex(p) ==
    /\ proc[p].pc = "createLike"
    /\ LET q == [proc[p] EXCEPT !.dbCalls = @ + 1]
       IN  \/ /\ likes' = [likes EXCEPT ![<<q.pid, q.user>>] = @ + 1]
              /\ Step(p, Return([q EXCEPT !.mutated = TRUE], [msg |-> "liked"]))
           \/ /\ Step(p, Throw(q, "DB_ERROR"))
              /\ UNCHANGED likes
    /\ UNCHANGED <<users, posts, nextId, writes, role, cache, entry, now, wroteAt>>

\* await createLike({ post_id, user_id }); return "liked".  The unique index
\* on (post_id, user_id) makes the insert of a second like of the pair fail
\* with a duplicate-key error
CreateLike(p) ==
    /\ proc[p].pc = "createLike"
    /\ LET q == [proc[p] EXCEPT !.dbCalls = @ + 1]
       IN  \/ IF likes[<<q.pid, q.user>>] > 0
              THEN /\ Step(p, Throw(q, "DUPLICATE_KEY"))
                   /\ UNCHANGED likes
              ELSE /\ likes' = [likes EXCEPT ![<<q.pid, q.user>>] = 1]
                   /\ Step(p, Return([q EXCEPT !.mutated = TRUE], [msg |-> "liked"]))
           \/ /\ Step(p, Throw(q, "DB_ERROR"))
              /\ UNCHANGED likes
    /\ UNCHANGED <<users, posts, nextId, writes, role, cache, entry, now, wroteAt>>

\* the toggles of P
Likes(P) ==
    \/ \E p \in P, u \in Users, i \in PostIds : StartLike(p, u, i)
    \/ \E p \in P : LikeFindPost(p)
    \/ \E p \in P : FindLike(p)
    \/ \E p \in P : DeleteLike(p)
    \/ \E p \in P : CreateLike(p)
    \/ \E p \in P : Respond(p)

(***************************************************************************)
(* The system.                                                             *)
(***************************************************************************)
\* the listing requests of P, with the query strings clients send, and what the
\* cache and the controller do on their own
Reads(P, pages, limits, names) ==
    \/ \E p \in P, rp \in pages, rl \in limits : StartGetAll(p, rp, rl)
    \/ \E p \in P, n \in names, rp \in pages, rl \in limits : StartGetUser(p, n, rp, rl)
    \/ \E p \in P : CacheGet(p)
    \/ \E p \in P : FindUser(p)
    \/ \E p \in P : DbFind(p)
    \/ \E p \in P : DbCount(p)
    \/ \E p \in P : CacheSet(p)
    \/ \E p \in P : Respond(p)
    \/ \E k \in Keys : Expire(k)

\* the create, edit and delete requests of P, with the bodies clients send
Writes(P, titles, newTitles, contents) ==
    \/ \E p \in P, u \in Users \cup {NoUser}, t \in titles, c \in contents :
          StartCreate(p, u, t, c)
    \/ \E p \in P : ClearKeys(p)
    \/ \E p \in P : ClearDel(p)
    \/ \E p \in P : FindPostsByUser(p)
    \/ \E p \in P : PromoteUser(p)
    \/ \E p \in P : CreatePost(p)
    \/ \E p \in P, u \in Users \cup {NoUser}, i \in PostIds, t \in newTitles, c \in contents :
          StartEdit(p, u, i, t, c)
    \/ \E p \in P, u \in Users \cup {NoUser}, i \in PostIds : StartDelete(p, u, i)
    \/ \E p \in P : FindPost(p)
    \/ \E p \in P : SavePost(p)
    \/ \E p \in P : RemovePost(p)

\* One request at a time, over the whole input alphabet.  The clock stands
\* still: how long a step takes is left open, and an entry may expire at any
\* moment (Expire).
Next ==
    \/ Reads({1}, PageInputs, LimitInputs, NameInputs)
    \/ Writes({1}, TitleInputs, NewTitleInputs, ContentInputs)

Spec == Init /\ [][Next]_vars

(***************************************************************************)
(* A database that does not change: some posts are stored, the cache is    *)
(* empty, and only listings are requested.                                 *)
(***************************************************************************)
\* the collections of up to MaxWrites posts titled "a", numbered as created
StoredPosts ==
    UNION {[1..n -> Users] : n \in 0..MaxWrites}

InitFixed ==
    /\ \E authors \in StoredPosts :
          /\ posts = [i \in 1..Len(authors) |->
                        [id |-> i, author |-> authors[i],
                         title |-> <<Run("a", 1)>>, content |-> <<Run("c", 1)>>]]
          /\ nextId = Len(authors) + 1
          /\ writes = Len(authors)
    /\ users = Users
    /\ likes = NoLikes
    /\ role = [u \in Users |-> IF u = "bob" THEN "admin" ELSE "user"]
    /\ cache = [k \in Keys |-> Nil]
    /\ entry = [k \in Keys |-> NoEntry]
    /\ now = 0
    /\ wroteAt = 0
    /\ proc = [p \in Procs |-> Idle]

NextFixed == Reads({1}, PageInputs, LimitInputs, NameInputs)

SpecFixed == InitFixed /\ [][NextFixed]_vars

(***************************************************************************)
(* clearCacheForKey on its own: the cache holds any of the listings of an  *)
(* empty database, and a caller clears patterns one call after the other.  *)
(***************************************************************************)
\* what the listing of key k caches over an empty database
EmptyListing(k) ==
    Stringify([list |-> IF Matches(k, PatPage) THEN "allPosts" ELSE "userPosts",
               items |-> <<>>, page |-> k[Len(k)], totalPages |-> 0, totalPosts |-> 0])

InitClear ==
    /\ posts = <<>>
    /\ nextId = 1
    /\ writes = 0
    /\ users = Users
    /\ likes = NoLikes
    /\ role = [u \in Users |-> IF u = "bob" THEN "admin" ELSE "user"]
    /\ \E held \in SUBSET Keys :
          /\ cache = [k \in Keys |-> IF k \in held THEN EmptyListing(k) ELSE Nil]
          /\ entry = [k \in Keys |-> IF k \in held
                                      THEN [exp |-> TTL_SECONDS, since |-> 0, readAt |-> 0]
                                      ELSE NoEntry]
    /\ now = 0
    /\ wroteAt = 0
    /\ proc = [p \in Procs |-> Idle]

NextClear ==
    \/ \E pat \in Patterns : StartClear(1, pat)
    \/ ClearKeys(1)
    \/ ClearDel(1)
    \/ Respond(1)

SpecClear == InitClear /\ [][NextClear]_vars

(***************************************************************************)
(* Requests running at the same time, with the clock: one post is stored,  *)
(* clients ask for the first page of the global listing and for the        *)
(* deletion of the post, and time passes between any two steps.            *)
(***************************************************************************)
NoParam == RawNums({})       \* the query string has no such parameter

InitTimed ==
    /\ posts = <<[id |-> 1, author |-> "bob",
                  title |-> <<Run("a", 1)>>, content |-> <<Run("c", 1)>>]>>
    /\ nextId = 2
    /\ writes = 0
    /\ users = Users
    /\ likes = NoLikes
    /\ role = [u \in Users |-> IF u = "bob" THEN "admin" ELSE "user"]
    /\ cache = [k \in Keys |-> Nil]
    /\ entry = [k \in Keys |-> NoEntry]
    /\ now = 0
    /\ wroteAt = 0
    /\ proc = [p \in Procs |-> Idle]

NextTimed ==
    \/ \E p \in Procs, rp \in NoParam, rl \in NoParam : StartGetAll(p, rp, rl)
    \/ \E p \in Procs : CacheGet(p)
    \/ \E p \in Procs : DbFind(p)
    \/ \E p \in Procs : DbCount(p)
    \/ \E p \in Procs : CacheSet(p)
    \/ \E p \in Procs : Respond(p)
    \/ \E p \in Procs : StartDelete(p, "bob", 1)
    \/ \E p \in Procs : FindPost(p)
    \/ \E p \in Procs : ClearKeys(p)
    \/ \E p \in Procs : ClearDel(p)
    \/ \E p \in Procs : RemovePost(p)
    \/ Tick

SpecTimed == InitTimed /\ [][NextTimed]_vars

(***************************************************************************)
(* Requests running at the same time, without the clock: one post is       *)
(* stored, clients ask for the pages of the global listing and for the     *)
(* deletion of the post, and the steps of two requests interleave freely.  *)
(***************************************************************************)
RacePages == RawNums(Pages)       \* ?page=1, ?page=2 or none

NextRace ==
    \/ \E p \in Procs, rp \in RacePages, rl \in NoParam : StartGetAll(p, rp, rl)
    \/ \E p \in Procs : CacheGet(p)
    \/ \E p \in Procs : DbFind(p)
    \/ \E p \in Procs : DbCount(p)
    \/ \E p \in Procs : CacheSet(p)
    \/ \E p \in Procs : Respond(p)
    \/ \E p \in Procs : StartDelete(p, "bob", 1)
    \/ \E p \in Procs : FindPost(p)
    \/ \E p \in Procs : ClearKeys(p)
    \/ \E p \in Procs : ClearDel(p)
    \/ \E p \in Procs : RemovePost(p)

SpecRace == InitTimed /\ [][NextRace]_vars

(***************************************************************************)
(* Users come and go: one request at a time, admins change roles and       *)
(* delete users, users create posts, and clients ask for the first page of *)
(* the listing of a user.                                                  *)
(***************************************************************************)
NextUsers ==
    \/ \E n \in UserIdInputs, rp \in NoParam, rl \in NoParam : StartGetUser(1, n, rp, rl)
    \/ CacheGet(1)
    \/ FindUser(1)
    \/ DbFind(1)
    \/ DbCount(1)
    \/ CacheSet(1)
    \/ Respond(1)
    \/ \E u \in users : StartCreate(1, u, Str(<<Run("a", 1)>>), Str(<<Run("c", 1)>>))
    \/ ClearKeys(1)
    \/ ClearDel(1)
    \/ FindPostsByUser(1)
    \/ PromoteUser(1)
    \/ CreatePost(1)
    \/ \E u \in UserIdInputs, r \in RoleInputs : StartUpdateRole(1, u, r)
    \/ \E u \in UserIdInputs : StartDeleteUser(1, u)
    \/ FindUserById(1)
    \/ SaveUser(1)
    \/ DeleteUserDoc(1)

SpecUsers == Init /\ [][NextUsers]_vars

(***************************************************************************)
(* Likes: one post is stored and users toggle their like on it and on a    *)
(* post that does not exist; one request at a time (SpecLikeSeq), or two   *)
(* at the same time (SpecLikes).                                           *)
(***************************************************************************)
NextLikeSeq == Likes({1})

SpecLikeSeq == InitTimed /\ [][NextLikeSeq]_vars

NextLikes == Likes(Procs)

SpecLikes == InitTimed /\ [][NextLikes]_vars

(***************************************************************************)
(* Properties.                                                             *)
(***************************************************************************)
Listing(q) == q.op \in {"getAll", "getUser"}
Writer(q) == q.op \in {"create", "edit", "delete"}
Succeeded(q) == q.pc = "done" /\ q.err = ""

\* the keys of the global listing and of the listing of user u
ListingKeys(u) == {k \in Keys : Matches(k, PatPage) \/ Matches(k, PatUserOf(u))}

\* what the listing q computes from the database when nothing is cached
ColdResult(q) ==
    ResponseData([q EXCEPT !.items = FindWindow(Matching(q), SkipOf(q), q.limit),
                           !.total = Len(Matching(q))])

\* C1: a writer has issued its cache invalidation only when its database
\* mutation has already been made.
C1_InvalidateAfterMutation ==
    \A p \in Procs : (Writer(proc[p]) /\ proc[p].invalidated) => proc[p].mutated

\* C2: when createPost by user u has succeeded (one request at a time), no key
\* of posts:page:* and no key of posts:user:u:* is in the cache.
C2_CreateClearsListings ==
    \A p \in Procs :
        (Succeeded(proc[p]) /\ proc[p].op = "create")
            => \A k \in ListingKeys(proc[p].user) : cache[k] = Nil

\* C3: when deletePost of a post of user u has succeeded (one request at a
\* time), no key of posts:page:* and no key of posts:user:u:* is in the cache,
\* so no listing can serve a totalPosts from before the delete.
C3_DeleteClearsListings ==
    \A p \in Procs :
        (Succeeded(proc[p]) /\ proc[p].op = "delete")
            => \A k \in ListingKeys(proc[p].doc.author) : cache[k] = Nil

\* C4: when editPost of a post of user u has succeeded (one request at a time),
\* no entry of a global page or of a page of u lists that post with a title or
\* content other than the edited one.
C4_EditLeavesNoStaleEntry ==
    \A p \in Procs :
        (Succeeded(proc[p]) /\ proc[p].op = "edit")
            => \A k \in ListingKeys(proc[p].doc.author) :
                  cache[k] # Nil =>
                     LET items == Parse(cache[k]).items
                     IN  \A i \in 1..Len(items) :
                            items[i].id = proc[p].pid
                               => /\ items[i].title = proc[p].res.title
                                  /\ items[i].content = proc[p].res.content

\* C5: no step of a createPost by user u changes the cache entry of a page of
\* another user's listing.
C5_CreateKeepsOtherUsers ==
    [][\A p \in Procs :
          (proc[p].op = "create" /\ proc'[p] # proc[p])
             => \A v \in Users \ {proc[p].user}, n \in Pages :
                   cache'[UserKey(v, n)] = cache[UserKey(v, n)]]_vars

\* C6: no listing request ends with the failure of a cache call: a failing get
\* or setEx is absorbed and the page is returned.
C6_ListingAbsorbsCacheFailure ==
    \A p \in Procs :
        (Listing(proc[p]) /\ proc[p].pc = "done") => proc[p].err # "CACHE_UNAVAILABLE"

\* C7: no write request ends with the failure of a cache call: when keys or del
\* fails the mutation is still made and the writer returns normally.
C7_WriteAbsorbsCacheFailure ==
    \A p \in Procs :
        (Writer(proc[p]) /\ proc[p].pc = "done")
            => (proc[p].err = "CACHE_UNAVAILABLE" => proc[p].mutated /\ proc[p].res # Nil)

\* C8: when a listing reads its key and finds it populated, it ends at once
\* with the parsed cached value and has made no database call.
C8_HitSkipsDatabase ==
    [][\A p \in Procs :
          (/\ proc[p].pc = "get"
           /\ CacheLookup(CacheKey(proc[p])) # Nil
           /\ proc'[p] # proc[p]
           /\ proc'[p].err = "")
             => /\ proc'[p].pc = "done"
                /\ proc'[p].res = Parse(CacheLookup(CacheKey(proc[p])))
                /\ proc'[p].dbCalls = 0
                /\ UNCHANGED <<users, likes, posts, nextId, writes, role, cache, entry, now, wroteAt>>]_vars

\* C8 witness: a listing has been served from the cache.
C8_Witness ==
    \E p \in Procs : Succeeded(proc[p]) /\ proc[p].hit /\ proc[p].res # Nil

\* C9: over a database that does not change, every listing returns what the
\* cold path computes for its scope, page and page size, whatever was cached.
C9_CacheTransparent ==
    \A p \in Procs :
        (Listing(proc[p]) /\ Succeeded(proc[p])) => proc[p].res = ColdResult(proc[p])

\* C10: every result a listing fetches has totalPages = ceil(totalPosts / limit)
\* and at most limit items, for the limit the items were fetched with;
\* ceil(95 / 10) = 10 and ceil(0 / 10) = 0.
C10_PaginationArithmetic ==
    /\ CeilDiv(95, 10) = 10
    /\ CeilDiv(0, 10) = 0
    /\ \A p \in Procs :
          (Listing(proc[p]) /\ Succeeded(proc[p]) /\ ~proc[p].hit)
             => /\ proc[p].res.totalPages = CeilDiv(proc[p].res.totalPosts, proc[p].limit)
                /\ Len(proc[p].res.items) <= proc[p].limit
                /\ (proc[p].res.totalPosts = 0 =>
                       proc[p].res.totalPages = 0 /\ proc[p].res.items = <<>>)

\* the window of page q.page when one page size, q.limit, is used for the skip
\* and for the limit
PageWindow(q) == FindWindow(Matching(q), (q.page - 1) * q.limit, q.limit)

\* C11: on a miss a listing returns the posts of its scope from position
\* (page - 1) * limit, at most limit of them, newest first.
C11_ReadsPageWindow ==
    \A p \in Procs :
        (Listing(proc[p]) /\ Succeeded(proc[p]) /\ ~proc[p].hit)
            => proc[p].res.items = PageWindow(proc[p])

\* C12: a listing in flight works on a page of at least 1 and never passes a
\* negative skip to the database.
C12_PageNormalized ==
    \A p \in Procs :
        (Listing(proc[p]) /\ Active(proc[p]))
            => proc[p].page >= 1 /\ SkipOf(proc[p]) >= 0

\* a standalone call of clearCacheForKey that the Cache Store has answered so far
Clearing(q) == q.op = "clear" /\ q.err = ""

\* key is pat followed by more: what the glob 'pat:*' stands for
Glob(key, pat) == Len(key) > Len(pat) /\ SubSeq(key, 1, Len(pat)) = pat

\* the keys of pattern pat that the cache c holds
Held(c, pat) == {k \in Keys : c[k] # Nil /\ Glob(k, pat)}

\* C15: a call of clearCacheForKey that follows a returned call with the same
\* pattern finds no key of the pattern, issues no delete, leaves the cache as
\* the first call left it, and returns.
C15_InvalidateIdempotent ==
    \A p \in Procs :
        (Clearing(proc[p]) /\ proc[p].prior >= 0)
            => /\ proc[p].pc \in {"keys", "done"}
               /\ proc[p].dels = 0
               /\ cache = proc[p].before
               /\ Held(cache, proc[p].pat) = {}

\* C15 witness: the second of two calls with one pattern has returned, after
\* the first one deleted keys.
C15_Witness ==
    \E p \in Procs : Clearing(proc[p]) /\ proc[p].pc = "done" /\ proc[p].prior > 0

\* C16: a call of clearCacheForKey that finds no key of its pattern in the
\* cache issues no delete, leaves the cache unchanged, and returns.
C16_InvalidateNoMatch ==
    \A p \in Procs :
        (Clearing(proc[p]) /\ Held(proc[p].before, proc[p].pat) = {})
            => /\ proc[p].pc \in {"keys", "done"}
               /\ proc[p].dels = 0
               /\ cache = proc[p].before

\* C16 witness: a call that found no key of its pattern has returned, with
\* other keys in the cache.
C16_Witness ==
    \E p \in Procs :
        /\ Clearing(proc[p]) /\ proc[p].pc = "done"
        /\ Held(proc[p].before, proc[p].pat) = {}
        /\ \E k \in Keys : proc[p].before[k] # Nil

\* C17: when a call of clearCacheForKey has returned, every key of its pattern
\* that the cache held is absent, one delete was issued for each of them, and
\* every other key is as it was.
C17_InvalidateExactly ==
    \A p \in Procs :
        (Clearing(proc[p]) /\ proc[p].pc = "done")
            => /\ \A k \in Keys :
                     cache[k] = IF k \in Held(proc[p].before, proc[p].pat)
                                THEN Nil ELSE proc[p].before[k]
               /\ proc[p].dels = Cardinality(Held(proc[p].before, proc[p].pat))

\* C17 witness: a call has returned that found two keys of its pattern and a
\* key outside it.
C17_Witness ==
    \E p \in Procs :
        /\ Clearing(proc[p]) /\ proc[p].pc = "done"
        /\ Cardinality(Held(proc[p].before, proc[p].pat)) >= 2
        /\ \E k \in Keys : proc[p].before[k] # Nil /\ ~Glob(k, proc[p].pat)

\* C13: a key that is in the cache has been there for at most TTL_SECONDS
\* since it was populated, whatever listings ran at the same time.
C13_AbsentAfterTTL ==
    \A k \in Keys : cache[k] # Nil => now <= entry[k].since + TTL_SECONDS

\* C14: a key that is in the cache either stays as it is, value and expiry, or
\* becomes absent: no step writes a populated key or restarts its TTL.
C14_NoOverwrite ==
    [][\A k \in Keys :
          cache[k] # Nil
             => \/ cache'[k] = Nil
                \/ /\ cache'[k] = cache[k]
                   /\ entry'[k] = entry[k]
                   /\ \A p \in Procs :
                         ~(/\ proc[p].pc = "set"
                           /\ CacheKey(proc[p]) = k
                           /\ Succeeded(proc'[p]))]_vars

\* C18: while the database has not changed, the data of every result a listing
\* returns were read from the database at most TTL_SECONDS before the return.
C18_BoundedStaleness ==
    \A p \in Procs :
        (Listing(proc[p]) /\ Succeeded(proc[p]) /\ writes = 0)
            => proc[p].age <= TTL_SECONDS

\* C19: a listing that started more than TTL_SECONDS after the last change of
\* the database returns what the database holds.
C19_StaleAtMostTTL ==
    \A p \in Procs :
        (/\ Listing(proc[p]) /\ Succeeded(proc[p])
         /\ writes > 0
         /\ proc[p].startedAt > wroteAt + TTL_SECONDS)
            => proc[p].res = ColdResult(proc[p])

\* the errors of the database side of a listing
ReadErrors == {"DB_ERROR", "USER_NOT_FOUND"}

\* C20: a step of a listing changes the cache only when its find and its count
\* have succeeded, and then it stores what they read under the listing's key; a
\* listing whose query fails or whose user is not found ends with that error
\* and leaves the cache as it was.
C20_EntryOnlyAfterRead ==
    [][\A p \in Procs :
          (Listing(proc[p]) /\ proc'[p] # proc[p])
             => /\ \/ cache' = cache /\ entry' = entry
                   \/ /\ proc[p].pc = "set"
                      /\ Succeeded(proc'[p])
                      /\ proc[p].dbCalls >= 2
                      /\ cache' = [cache EXCEPT ![CacheKey(proc[p])] =
                                      Stringify(ColdResult(proc[p]))]
                /\ proc'[p].err \in ReadErrors
                      => /\ proc'[p].pc = "done" /\ proc'[p].res = Nil
                         /\ cache' = cache]_vars

\* C20 witness: a listing has ended with the error of a failed query or of an
\* unknown user while the cache held an entry.
C20_Witness ==
    \E p \in Procs :
        /\ Listing(proc[p]) /\ proc[p].pc = "done"
        /\ proc[p].err \in ReadErrors
        /\ proc[p].dbCalls >= 1
        /\ \E k \in Keys : cache[k] # Nil

C29_PromotionOnlyWithPost ==
    \A p \in Procs :
        (proc[p].op = "create" /\ proc[p].pc = "done" /\ proc[p].user \in Users)
            => /\ proc[p].err # "" => role[proc[p].user] = proc[p].urole
               /\ proc[p].urole \in {"admin", "author"}
                     => role[proc[p].user] = proc[p].urole

\* C22: a post is removed only by a deletePost of its own author: a deletePost
\* that went past the permission check, and so one that removed a post, was
\* requested by the author of the post it found
C22_DeleteOnlyByAuthor ==
    \A p \in Procs :
        (proc[p].op = "delete" /\ proc[p].doc # Nil)
            => proc[p].doc.author = proc[p].user

\* the errors the writers raise from their checks
CheckErrors ==
    {"USER_NOT_FOUND", "UNAUTHORIZED_EDIT", "UNAUTHORIZED_DELETE",
     "INVALID_INPUT_TYPE", "EMPTY_TITLE_OR_CONTENT", "TITLE_TOO_LONG",
     "CONTENT_TOO_LONG", "POST_NOT_FOUND", "FORBIDDEN_EDIT", "FORBIDDEN_DELETE"}

\* C23: a rejected write changes nothing: the step in which createPost,
\* editPost or deletePost ends with the error of a failed check leaves the
\* posts, the roles and the cache as they were, and the request has issued no
\* invalidation and no write
C23_RejectedWriteChangesNothing ==
    [][\A p \in Procs :
          (/\ Writer(proc'[p])
           /\ proc[p].pc # "done" /\ proc'[p].pc = "done"
           /\ proc'[p].err \in CheckErrors)
              => /\ posts' = posts /\ role' = role /\ cache' = cache
                 /\ ~proc'[p].invalidated /\ ~proc'[p].mutated]_vars

\* a delete was refused for lack of permission while a post is stored and a
\* page listing is cached
C23_Witness ==
    \E p \in Procs :
        /\ proc[p].op = "delete" /\ proc[p].pc = "done"
        /\ proc[p].err = "FORBIDDEN_DELETE"
        /\ posts # <<>>
        /\ \E k \in Keys : Matches(k, PatPage) /\ cache[k] # Nil

(***************************************************************************)
(* What the cache holds.                                                   *)
(***************************************************************************)
\* C30: the value under posts:page:n is a serialized result of the global
\* listing whose page is n, and the value under posts:user:u:page:n is a
\* serialized result of the listing of a user whose page is n and whose items
\* are all posts of author u
C30_CacheContentIntegrity ==
    \A k \in Keys :
        cache[k] # Nil
            => LET v == Parse(cache[k])
               IN  /\ v.page = k[Len(k)]
                   /\ IF Matches(k, PatPage)
                      THEN v.list = "allPosts"
                      ELSE /\ v.list = "userPosts"
                           /\ \A i \in 1..Len(v.items) : v.items[i].author = k[3]

\* the second page of the global listing and the listing of a user are cached
\* at the same time, both with posts in them
C30_Witness ==
    /\ cache[PageKey(2)] # Nil /\ Parse(cache[PageKey(2)]).items # <<>>
    /\ \E u \in Users :
          /\ cache[UserKey(u, 1)] # Nil
          /\ Parse(cache[UserKey(u, 1)]).items # <<>>

(***************************************************************************)
(* Invalidation next to concurrent listings.                               *)
(***************************************************************************)
\* C27: invalidate is not atomic with respect to concurrent population: the
\* step that completes its deletes leaves every key it had listed absent, and
\* an absent key becomes present only by the setEx of a listing for that key;
\* so when invalidate returns, a listed key is present only if it was written
\* again
C27_InvalidateNotAtomic ==
    [][/\ \A p \in Procs :
             (proc[p].pc = "del" /\ proc'[p].pc = AfterClear(proc[p]))
                => \A k \in proc[p].keys : cache'[k] = Nil
       /\ \A k \in Keys :
             (cache[k] = Nil /\ cache'[k] # Nil)
                => \E q \in Procs : /\ proc[q].pc = "set"
                                    /\ CacheKey(proc[q]) = k
                                    /\ proc'[q].pc = "done"]_vars

\* the invalidation of a deletePost has deleted the keys it listed and has
\* returned, the post is not removed yet, and a key matching its pattern is in
\* the cache: a concurrent listing stored it
C27_Witness ==
    \E p \in Procs :
        /\ proc[p].op = "delete" /\ proc[p].pc = "remove"
        /\ proc[p].dels > 0
        /\ \E k \in Keys : Matches(k, proc[p].pat) /\ cache[k] # Nil

(***************************************************************************)
(* Users and roles.                                                        *)
(***************************************************************************)
\* the failures of the stores behind the listing of a user
StoreErrors == {"CACHE_UNAVAILABLE", "DB_ERROR"}

\* C24: getAllPostsByUser for a username that no existing user has fails with
\* USER_NOT_FOUND (or with a failure of the cache or the database) and returns
\* no listing, whatever requests came before it
C24_NoListingWithoutUser ==
    \A p \in Procs :
        (proc[p].op = "getUser" /\ proc[p].pc = "done" /\ proc[p].user \notin users)
            => /\ proc[p].err \in {"USER_NOT_FOUND"} \cup StoreErrors
               /\ proc[p].res = Nil

\* C25: every user's role is one of VALID_ROLES; an updateUserRole without a
\* role or with a role outside the list ends with the validation error and
\* the role the user had; an updateUserRole with a valid role for an existing
\* user, when the database does not fail, leaves exactly that role stored
C25_RolesValid ==
    /\ \A u \in users : role[u] \in VALID_ROLES
    /\ \A p \in Procs :
          (proc[p].op = "updateRole" /\ proc[p].pc = "done" /\ proc[p].user \in users)
             => /\ proc[p].newRole = "" => proc[p].err = "ROLE_REQUIRED"
                /\ proc[p].newRole \notin VALID_ROLES \cup {""}
                      => proc[p].err = "INVALID_ROLE"
                /\ proc[p].newRole \notin VALID_ROLES
                      => role[proc[p].user] = proc[p].urole
                /\ (proc[p].newRole \in VALID_ROLES /\ proc[p].err # "DB_ERROR")
                      => role[proc[p].user] = proc[p].newRole

(***************************************************************************)
(* Likes.                                                                  *)
(***************************************************************************)
\* C26: like is a toggle: on an existing post, a likePost of a user without a
\* like adds exactly that user's like and reports "liked", a likePost of a
\* user with a like removes exactly that like and reports "unliked", and the
\* second of two successive toggles of one user on one post leaves the likes
\* as they were before the first; on a post that does not exist it fails with
\* POST_NOT_FOUND after the one lookup of the post, the likes untouched
C26_LikeToggles ==
    \A p \in Procs :
        (proc[p].op = "like" /\ proc[p].pc = "done")
            => LET q == proc[p]
                   pr == <<q.pid, q.user>>
               IN  IF FindPostById(q.pid) = Nil
                   THEN /\ q.err \in {"POST_NOT_FOUND", "DB_ERROR"}
                        /\ q.dbCalls = 1
                        /\ likes = q.likesBefore
                   ELSE /\ q.err \in {"", "DB_ERROR"}
                        /\ q.err = ""
                             => /\ IF q.likesBefore[pr] = 0
                                   THEN /\ q.res = [msg |-> "liked"]
                                        /\ likes = [q.likesBefore EXCEPT ![pr] = 1]
                                   ELSE /\ q.res = [msg |-> "unliked"]
                                        /\ likes = [q.likesBefore EXCEPT ![pr] = 0]
                                /\ q.again => likes = q.likesOrigin

\* a user has toggled twice in a row on the stored post while the other user's
\* like is there: the second toggle reported "unliked"
C26_Witness ==
    \E p \in Procs :
        /\ proc[p].op = "like" /\ Succeeded(proc[p]) /\ proc[p].again
        /\ proc[p].res = [msg |-> "unliked"]
        /\ \E u \in Users \ {proc[p].user} : likes[<<proc[p].pid, u>>] = 1

\* C28: there is at most one like per (post, user), also when one user sends
\* two likePost requests for one post at the same time
C28_OneLikePerPair ==
    \A pr \in PostIds \X Users : likes[pr] <= 1

\* two requests of one user for one post both found no like; one created the
\* like and the other ended with the duplicate-key error
C28_Witness ==
    \E p, o \in Procs :
        /\ p # o
        /\ proc[p].op = "like" /\ proc[p].pc = "done" /\ proc[p].err = "DUPLICATE_KEY"
        /\ proc[o].op = "like" /\ Succeeded(proc[o])
        /\ proc[o].res = [msg |-> "liked"]
        /\ proc[o].user = proc[p].user /\ proc[o].pid = proc[p].pid
        /\ likes[<<proc[p].pid, proc[p].user>>] = 1

====
